---- MODULE Spec2Model ----
(***************************************************************************)
(* A model of the case-study backend (src/unnamed/part_001): the           *)
(* focus-group record store, the save-edited-submission reconciliation,    *)
(* the group-submissions report and the auth endpoints' failure paths.     *)
(*                                                                         *)
(* A stored submission is a function from the names of the fields it has   *)
(* to their values, so "field absent" and object spread are what they are  *)
(* in the JavaScript.  Each request handler is cut at its awaits on file   *)
(* I/O: one step up to the point where the write is handed to the file     *)
(* system, one step for the write's completion and the rest of the         *)
(* handler.                                                                *)
(***************************************************************************)
EXTENDS Naturals, Sequences, FiniteSets, TLC

(***************************************************************************)
(* Bounds of the model.                                                    *)
(***************************************************************************)
\* the most records the focus-group file holds (pushes stop there)
MaxStore == 3
\* the clock runs over the ticks 0..MaxClock
MaxClock == 1

\* the most writes of other handlers that end while one handler's write is
\* under way
MaxOvertake == 1

\* the most users data/users.json holds (registration stops there)
MaxUsers == 2

\* the most records of the stores the group report is computed over
MaxGroupStore == 3

\* the most records of each collection the history reports are computed over
MaxHistoryStore == 2

\* request handlers that can be in flight at once
Slots == {1, 2}

VARIABLES
    fileExists,     \* does data/case-studies-focus-group.json exist
    fileData,       \* its parsed content: a sequence of submissions
    clock,          \* the tick new Date() reads
    req,            \* per handler slot: the request, the handler's locals, the answer
    usersData,      \* the parsed content of data/users.json ([] while there is none)
    http,           \* the auth request handled last and how it ended
    report,         \* the body of the last report answered (group, history)
    individualData  \* the parsed content of data/case-studies.json ([] while there is none)

vars == <<fileExists, fileData, clock, req, usersData, http, report, individualData>>
focusGroupVars == <<fileExists, fileData, clock, req>>
otherVars == <<usersData, http, report, individualData>>

(***************************************************************************)
(* Values.                                                                 *)
(***************************************************************************)
DigitStr == <<"0", "1", "2", "3", "4", "5", "6", "7", "8", "9">>

\* new Date().toISOString() at tick t
toISOString(t) == "2025-01-01T00:00:00.00" \o DigitStr[t + 1] \o "Z"

\* the submittedAt values clients put in the submissions they post
ClientTimes == {"2024-01-01T00:00:00Z", "2024-01-02T00:00:00Z"}

CasesA == <<[group |-> "g1"]>>
CasesB == <<[group |-> "g2"]>>

\* a field of an object, read into a template literal: undefined prints so
Str(s, f) == IF f \in DOMAIN s THEN s[f] ELSE "undefined"

\* `${sub.username}|${sub.email}|${sub.submittedAt}`
identityKey(sub) ==
    Str(sub, "username") \o "|" \o Str(sub, "email") \o "|" \o Str(sub, "submittedAt")

\* sub.isEditedVersion, as a condition
isEditedVersion(sub) == "isEditedVersion" \in DOMAIN sub /\ sub.isEditedVersion

\* sub.isEditedVersion && sub.originalSubmissionId === id
isEditedVersionOf(sub, id) ==
    /\ isEditedVersion(sub)
    /\ "originalSubmissionId" \in DOMAIN sub
    /\ sub.originalSubmissionId = id

\* { ...a, ...b }
spread(a, b) == [f \in (DOMAIN a) \cup (DOMAIN b) |-> IF f \in DOMAIN b THEN b[f] ELSE a[f]]

\* editedBy || 'unknown'
orUnknown(editedBy) == IF editedBy = "" THEN "unknown" ELSE editedBy

\* facilitatorComment && facilitatorComment.trim(), over the comments modelled
Comments == {"", "  ", "note"}
trim(c) == IF c = "  " THEN "" ELSE c
hasComment(c) == c # "" /\ trim(c) # ""

\* Array.prototype.find / findIndex over the indexes where the callback is
\* true: the first of them, 1-based; 0 stands for "none" (undefined, -1)
FindIndex(matching) ==
    IF matching = {} THEN 0 ELSE CHOOSE i \in matching : \A j \in matching : i <= j

(***************************************************************************)
(* The record store.                                                       *)
(***************************************************************************)
\* loadFocusGroupSubmissions: the catch turns any failed read into []
loadFocusGroupSubmissions(exists, data) == IF exists THEN data ELSE <<>>

\* (a slip: the write keeps the records that reached the file in between)
saveFocusGroupSubmissions_merges(current, submissions) ==
    IF Len(current) > Len(submissions)
    THEN submissions \o SubSeq(current, Len(submissions) + 1, Len(current))
    ELSE submissions

\* fs.writeFile(FOCUS_GROUP_FILE, JSON.stringify(submissions)): the file's
\* content becomes the array handed over, whatever it held before
saveFocusGroupSubmissions(current, submissions) == submissions

(***************************************************************************)
(* save-edited-submission: the three ways of building newSubmission.       *)
(***************************************************************************)
\* (a slip: the existing edited version is left out of the merge)
updateExisting_fromOriginal(originalSubmission, existingEditedVersion, editedData, editedBy, now) ==
    spread(spread(originalSubmission, editedData),
           [editTimestamp |-> toISOString(now), editedBy |-> orUnknown(editedBy)])

\* an edited version exists: original, then it, then the edits
updateExisting(originalSubmission, existingEditedVersion, editedData, editedBy, now) ==
    spread(spread(spread(originalSubmission, existingEditedVersion), editedData),
           [editTimestamp |-> toISOString(now), editedBy |-> orUnknown(editedBy)])

\* (a slip: the stored record is left out of the merge)
updateInPlace_editsOnly(editingEditedVersion, editedData, editedBy, now) ==
    spread(editedData,
           [editTimestamp |-> toISOString(now), editedBy |-> orUnknown(editedBy)])
\* the addressed record is itself an edited version: it, then the edits
updateInPlace(editingEditedVersion, editedData, editedBy, now) ==
    spread(spread(editingEditedVersion, editedData),
           [editTimestamp |-> toISOString(now), editedBy |-> orUnknown(editedBy)])

\* (a slip: the edits are spread last, over the fields the server sets)
createNew_editsLast(originalSubmission, editedData, originalSubmissionId, editedBy, now, later) ==
    spread(spread(originalSubmission,
                  [submittedAt |-> toISOString(now),
                   isEditedVersion |-> TRUE,
                   originalSubmissionId |-> originalSubmissionId,
                   editedBy |-> orUnknown(editedBy),
                   editTimestamp |-> toISOString(later)]),
           editedData)

\* neither: a new edited version; the last five fields are set after the spreads
createNew(originalSubmission, editedData, originalSubmissionId, editedBy, now, later) ==
    spread(spread(originalSubmission, editedData),
           [submittedAt |-> toISOString(now),
            isEditedVersion |-> TRUE,
            originalSubmissionId |-> originalSubmissionId,
            editedBy |-> orUnknown(editedBy),
            editTimestamp |-> toISOString(later)])

\* (a slip: the record is pushed, the one at i stays)
replaceAt_pushes(arr, i, x) == Append(arr, x)

\* arr with arr[i] = x
replaceAt(arr, i, x) == [arr EXCEPT ![i] = x]

\* The handler from the parsed file to the call of fs.writeFile: what it
\* found, the branch it took, newSubmission and the array it hands to the
\* write.  now and later are the ticks its new Date() calls read.
reconcile(focusGroupData, originalSubmissionId, editedData, editedBy, now, later) ==
    LET all == 1..Len(focusGroupData)
        oi == FindIndex({i \in all : identityKey(focusGroupData[i]) = originalSubmissionId})
        ei == FindIndex({i \in all :
                            isEditedVersionOf(focusGroupData[i], originalSubmissionId)})
        ii == FindIndex({i \in all :
                            /\ isEditedVersion(focusGroupData[i])
                            /\ identityKey(focusGroupData[i]) = originalSubmissionId})
    IN  IF oi = 0
        THEN [found |-> FALSE, branch |-> "none", newSubmission |-> <<>>,
              index |-> 0, isNewVersion |-> FALSE, data |-> focusGroupData]
        ELSE IF ei # 0
        THEN LET n == updateExisting(focusGroupData[oi], focusGroupData[ei],
                                     editedData, editedBy, now)
             IN  [found |-> TRUE, branch |-> "existing", newSubmission |-> n,
                  index |-> ei, isNewVersion |-> FALSE,
                  data |-> replaceAt(focusGroupData, ei, n)]
        ELSE IF ii # 0
        THEN LET n == updateInPlace(focusGroupData[ii], editedData, editedBy, now)
             IN  [found |-> TRUE, branch |-> "editing", newSubmission |-> n,
                  index |-> ii, isNewVersion |-> FALSE,
                  data |-> replaceAt(focusGroupData, ii, n)]
        ELSE LET n == createNew(focusGroupData[oi], editedData, originalSubmissionId,
                                editedBy, now, later)
             IN  [found |-> TRUE, branch |-> "create", newSubmission |-> n,
                  index |-> Len(focusGroupData) + 1, isNewVersion |-> TRUE,
                  data |-> Append(focusGroupData, n)]

\* the facilitator comment, put on the object after the write
attachComment(newSubmission, facilitatorComment, editedBy, now) ==
    IF hasComment(facilitatorComment)
    THEN spread(newSubmission,
                [facilitatorComment |-> facilitatorComment,
                 facilitatorCommentTimestamp |-> toISOString(now),
                 facilitatorCommentBy |-> orUnknown(editedBy)])
    ELSE newSubmission

(***************************************************************************)
(* What the clients send.                                                  *)
(***************************************************************************)
\* the body of a focus-group POST: a submission as the form builds it
PostBodies ==
    {[username |-> "alice", email |-> "a@x.com", submittedAt |-> t, cases |-> CasesA] :
        t \in ClientTimes}

\* the ids an edit request names: keys of posted submissions, and keys of
\* the edited versions the server makes of them
EditTimes == ClientTimes \cup {toISOString(t) : t \in 0..MaxClock}
EditIds == {identityKey([username |-> "alice", email |-> "a@x.com", submittedAt |-> t]) :
                t \in EditTimes}

\* What an edit request carries besides the id: editedData, the
\* facilitator's comment and editedBy ("" when the field is left out).
\* An edit of the cases with a comment:
EditCases ==
    [editedData |-> [cases |-> CasesB], facilitatorComment |-> "note", editedBy |-> "fac"]
\* editedData that names another submission as the original:
EditRetarget ==
    [editedData |-> [originalSubmissionId |-> "alice|a@x.com|2024-01-02T00:00:00Z"],
     facilitatorComment |-> "", editedBy |-> "fac"]
\* editedData with every field the server sets itself, a blank comment, no editedBy:
EditServerFields ==
    [editedData |-> [isEditedVersion |-> FALSE,
                     submittedAt |-> "2024-01-01T00:00:00Z",
                     originalSubmissionId |-> "alice|a@x.com|2024-01-02T00:00:00Z"],
     facilitatorComment |-> "  ", editedBy |-> ""]

EditBodies == {EditCases, EditRetarget, EditServerFields}

(***************************************************************************)
(* The handlers.                                                           *)
(***************************************************************************)
\* a slot with no request in it
Idle ==
    [pc |-> "idle", kind |-> "none", id |-> "", editedData |-> <<>>,
     facilitatorComment |-> "", editedBy |-> "", focusGroupData |-> <<>>,
     toWrite |-> <<>>, newSubmission |-> <<>>, index |-> 0, branch |-> "none",
     isNewVersion |-> FALSE, status |-> 0, success |-> FALSE, at |-> 0,
     replaced |-> <<>>, overtaken |-> 0, last |-> FALSE]

NoRequest ==
    [kind |-> "none", answered |-> FALSE, status |-> 0, success |-> FALSE,
     failure |-> "none", unhandledRejection |-> FALSE]
NoReport == [status |-> 0, success |-> FALSE, group |-> "", data |-> <<>>, count |-> 0]

OthersIdle ==
    /\ usersData = <<>>
    /\ http = NoRequest
    /\ report = NoReport
    /\ individualData = <<>>

Init ==
    /\ fileExists = FALSE
    /\ fileData = <<>>
    /\ clock = 0
    /\ req = [r \in Slots |-> Idle]
    /\ OthersIdle

\* A request goes to the lowest slot with no write under way.  A slot keeps
\* the answer of its request (pc = "done") until the next request comes in.
Free(r) ==
    /\ req[r].pc # "writing"
    /\ \A q \in Slots : q < r => req[q].pc = "writing"

Accept(r, started) ==
    [q \in Slots |-> IF q = r THEN started
                     ELSE IF req[q].pc = "writing" THEN req[q] ELSE Idle]

\* slot r's write reaches the file: the handlers still waiting on theirs
\* have been overtaken once more
CanOvertake(r) ==
    \A q \in Slots : q # r /\ req[q].pc = "writing" => req[q].overtaken < MaxOvertake

Written(r, finished) ==
    [q \in Slots |-> IF q = r THEN [finished EXCEPT !.last = TRUE]
                     ELSE IF req[q].pc = "writing"
                          THEN [req[q] EXCEPT !.overtaken = @ + 1]
                          ELSE [req[q] EXCEPT !.last = FALSE]]

\* POST /api/save-edited-submission, up to the call of fs.writeFile.
\* A missing file makes readFile throw into the catch (500); no original
\* is the 404; otherwise the write of the new array is under way.
EditRequest(r, id, body, later) ==
    /\ Free(r)
    /\ later \in clock..MaxClock
    /\ LET base == [Idle EXCEPT !.kind = "edit", !.id = id, !.at = clock,
                                !.editedData = body.editedData,
                                !.facilitatorComment = body.facilitatorComment,
                                !.editedBy = body.editedBy]
           rec == reconcile(fileData, id, body.editedData, body.editedBy, clock, later)
       IN  IF ~fileExists
           THEN /\ later = clock
                /\ req' = Accept(r, [base EXCEPT !.pc = "done", !.status = 500])
           ELSE IF ~rec.found
           THEN /\ later = clock
                /\ req' = Accept(r, [base EXCEPT !.pc = "done", !.status = 404,
                                                 !.focusGroupData = fileData])
           ELSE /\ rec.branch = "create" => Len(rec.data) <= MaxStore
                /\ rec.branch = "create" \/ later = clock
                /\ req' = Accept(r, [base EXCEPT
                                        !.pc = "writing", !.focusGroupData = fileData,
                                        !.toWrite = rec.data,
                                        !.newSubmission = rec.newSubmission,
                                        !.index = rec.index, !.branch = rec.branch,
                                        !.isNewVersion = rec.isNewVersion])
    /\ clock' = later
    /\ UNCHANGED <<fileExists, fileData>>
    /\ UNCHANGED otherVars

\* The write of slot r ends.  Done: the file holds the array, the comment
\* goes on newSubmission, the answer is 200.  Failed: the catch answers 500.
\* replaced keeps what the file held just before the write; last says that
\* no other write has reached the file since; at is the tick of the request.
EditWritten(r, ok) ==
    /\ req[r].pc = "writing"
    /\ req[r].kind = "edit"
    /\ IF ok
       THEN /\ CanOvertake(r)
            /\ fileData' = saveFocusGroupSubmissions(fileData, req[r].toWrite)
            /\ fileExists' = TRUE
            /\ req' = Written(r, [req[r] EXCEPT
                                    !.pc = "done", !.status = 200, !.success = TRUE,
                                    !.replaced = fileData,
                                    !.newSubmission =
                                        attachComment(req[r].newSubmission,
                                                      req[r].facilitatorComment,
                                                      req[r].editedBy, clock)])
       ELSE /\ req' = Accept(r, [req[r] EXCEPT !.pc = "done", !.status = 500,
                                               !.replaced = fileData])
            /\ UNCHANGED <<fileExists, fileData>>
    /\ UNCHANGED clock
    /\ UNCHANGED otherVars

\* POST /api/case-studies-focus-group, up to the call of fs.writeFile
PostRequest(r, submission) ==
    /\ Free(r)
    /\ LET submissions == loadFocusGroupSubmissions(fileExists, fileData)
       IN  /\ Len(submissions) < MaxStore
           /\ req' = Accept(r, [Idle EXCEPT
                                    !.pc = "writing", !.kind = "post",
                                    !.focusGroupData = submissions,
                                    !.newSubmission = submission,
                                    !.index = Len(submissions) + 1,
                                    !.toWrite = Append(submissions, submission)])
    /\ UNCHANGED <<fileExists, fileData, clock>>
    /\ UNCHANGED otherVars

PostWritten(r, ok) ==
    /\ req[r].pc = "writing"
    /\ req[r].kind = "post"
    /\ IF ok
       THEN /\ CanOvertake(r)
            /\ fileData' = saveFocusGroupSubmissions(fileData, req[r].toWrite)
            /\ fileExists' = TRUE
            /\ req' = Written(r, [req[r] EXCEPT !.pc = "done", !.status = 200,
                                               !.success = TRUE, !.replaced = fileData])
       ELSE /\ req' = Accept(r, [req[r] EXCEPT !.pc = "done", !.status = 500,
                                               !.replaced = fileData])
            /\ UNCHANGED <<fileExists, fileData>>
    /\ UNCHANGED clock
    /\ UNCHANGED otherVars

Tick ==
    /\ clock < MaxClock
    /\ clock' = clock + 1
    /\ UNCHANGED <<fileExists, fileData, req>>
    /\ UNCHANGED otherVars

\* One handler at a time, over every id and body.
NextSeq ==
    \/ \E id \in EditIds, body \in EditBodies, later \in 0..MaxClock :
            EditRequest(1, id, body, later)
    \/ \E ok \in BOOLEAN : EditWritten(1, ok)
    \/ \E submission \in PostBodies : PostRequest(1, submission)
    \/ \E ok \in BOOLEAN : PostWritten(1, ok)
    \/ Tick

SpecSeq == Init /\ [][NextSeq]_vars

\* Handlers overlapping: a second request may come in while the first
\* one's write is under way.  Edits of the first posted submission.
ConcurrentIds == {"alice|a@x.com|2024-01-01T00:00:00Z"}
ConcurrentBodies == {EditCases}

Next ==
    \/ \E r \in Slots, id \in ConcurrentIds, body \in ConcurrentBodies,
          later \in 0..MaxClock :
            EditRequest(r, id, body, later)
    \/ \E r \in Slots, ok \in BOOLEAN : EditWritten(r, ok)
    \/ \E r \in Slots, submission \in PostBodies : PostRequest(r, submission)
    \/ \E r \in Slots, ok \in BOOLEAN : PostWritten(r, ok)
    \/ Tick

Spec == Init /\ [][Next]_vars

(***************************************************************************)
(* Edits of one submission, one after the other.  The store starts with a  *)
(* record whose key is TargetId and no edited version of it; every request *)
(* is an edit with that id.                                                *)
(***************************************************************************)
TargetId == "alice|a@x.com|2024-01-01T00:00:00Z"
OtherId == "alice|a@x.com|2024-01-02T00:00:00Z"

Posted(t) == [username |-> "alice", email |-> "a@x.com", submittedAt |-> t, cases |-> CasesA]
\* the edited version the server makes of the other submission
OtherEdited ==
    createNew(Posted("2024-01-02T00:00:00Z"), [cases |-> CasesB], OtherId, "fac", 0, 0)
\* the same after an edit whose editedData sets submittedAt: its own key is TargetId
OtherEditedAtTarget ==
    updateExisting(Posted("2024-01-02T00:00:00Z"), OtherEdited,
                   [submittedAt |-> "2024-01-01T00:00:00Z"], "fac", 0)

SequentialStores ==
    {<<Posted("2024-01-01T00:00:00Z")>>,
     <<Posted("2024-01-01T00:00:00Z"), Posted("2024-01-01T00:00:00Z")>>,
     <<Posted("2024-01-01T00:00:00Z"), Posted("2024-01-02T00:00:00Z")>>,
     <<Posted("2024-01-02T00:00:00Z"), Posted("2024-01-01T00:00:00Z"), OtherEdited>>,
     <<Posted("2024-01-02T00:00:00Z"), OtherEditedAtTarget>>,
     <<Posted("2024-01-01T00:00:00Z"), Posted("2024-01-02T00:00:00Z"), OtherEditedAtTarget>>}

\* editedData that makes the record an edited version of TargetId by itself
EditSelf ==
    [editedData |-> [isEditedVersion |-> TRUE, originalSubmissionId |-> TargetId],
     facilitatorComment |-> "", editedBy |-> "fac"]

InitSequential ==
    /\ fileExists = TRUE
    /\ fileData \in SequentialStores
    /\ clock = 0
    /\ req = [r \in Slots |-> Idle]
    /\ OthersIdle

NextSequential ==
    \/ \E body \in EditBodies \cup {EditSelf}, later \in 0..MaxClock :
            EditRequest(1, TargetId, body, later)
    \/ \E ok \in BOOLEAN : EditWritten(1, ok)
    \/ Tick

SpecSequential == InitSequential /\ [][NextSequential]_vars

\* Stores in which edited versions are addressed by their own keys: the
\* edited version after, and before, a submission posted later; and the
\* edited versions of two submissions, made in the same millisecond (their
\* own keys are equal) and in different ones.
TargetEdited ==
    createNew(Posted("2024-01-01T00:00:00Z"), [cases |-> CasesB], TargetId, "fac", 0, 0)
OtherEditedLater ==
    createNew(Posted("2024-01-02T00:00:00Z"), [cases |-> CasesB], OtherId, "fac", 1, 1)
EditingStores ==
    {<<Posted("2024-01-01T00:00:00Z"), TargetEdited>>,
     <<Posted("2024-01-01T00:00:00Z"), Posted("2024-01-02T00:00:00Z"), TargetEdited>>,
     <<Posted("2024-01-01T00:00:00Z"), TargetEdited, Posted("2024-01-02T00:00:00Z")>>,
     <<Posted("2024-01-01T00:00:00Z"), Posted("2024-01-02T00:00:00Z"),
       TargetEdited, OtherEdited>>,
     <<Posted("2024-01-01T00:00:00Z"), Posted("2024-01-02T00:00:00Z"),
       OtherEdited, TargetEdited>>,
     <<Posted("2024-01-01T00:00:00Z"), Posted("2024-01-02T00:00:00Z"),
       TargetEdited, OtherEditedLater>>,
     <<Posted("2024-01-02T00:00:00Z"), OtherEditedLater>>}

InitEditing ==
    /\ fileExists = TRUE
    /\ fileData \in EditingStores
    /\ clock = 0
    /\ req = [r \in Slots |-> Idle]
    /\ OthersIdle

NextEditing ==
    \/ \E id \in EditIds, body \in EditBodies, later \in 0..MaxClock :
            EditRequest(1, id, body, later)
    \/ \E ok \in BOOLEAN : EditWritten(1, ok)
    \/ Tick

SpecEditing == InitEditing /\ [][NextEditing]_vars

(***************************************************************************)
(* The auth endpoints.  Each handler is one step: what it answers, or, for *)
(* the two handlers without try/catch, the rejection that leaves it.       *)
(***************************************************************************)
\* a password sent as a JSON number: truthy, and not a string
NumberPassword == "(number) 123456"
Usernames == {"", "alice", "bob"}
Emails == {"", "a@x.com", "b@x.com"}
Passwords == {"", "secret", "wrong", NumberPassword}

\* bcrypt.hash / bcrypt.compare reject when the password is not a string
bcryptRejects(password) == password = NumberPassword
bcryptHash(password) == "$2a$10$" \o password
bcryptCompare(password, passwordHash) == passwordHash = bcryptHash(password)

\* Date.now().toString() at tick t
dateNowString(t) == "173568960000" \o DigitStr[t + 1]

\* loadUsers: the catch turns any failed read into []
loadUsers(data) == data

\* x || fallback
orElse(x, fallback) == IF x = "" THEN fallback ELSE x

Answer(kind, status) ==
    [kind |-> kind, answered |-> TRUE, status |-> status, success |-> status = 200,
     failure |-> "none", unhandledRejection |-> FALSE]
\* a failure caught by the handler's catch: 500 { success: false }
Caught(kind, failure) ==
    [kind |-> kind, answered |-> TRUE, status |-> 500, success |-> FALSE,
     failure |-> failure, unhandledRejection |-> FALSE]
\* a failure in an async handler with no try/catch: the promise the handler
\* returned rejects, and res is never written
Escaped(kind, failure) ==
    [kind |-> kind, answered |-> FALSE, status |-> 0, success |-> FALSE,
     failure |-> failure, unhandledRejection |-> TRUE]

\* POST /api/auth/register
Register(username, email, password, ok) ==
    LET users == loadUsers(usersData)
        newUser == [id |-> dateNowString(clock), username |-> username, email |-> email,
                    passwordHash |-> bcryptHash(password),
                    createdAt |-> toISOString(clock)]
    IN  /\ IF username = "" \/ email = "" \/ password = ""
           THEN http' = Answer("register", 400) /\ UNCHANGED usersData
           ELSE IF \E i \in 1..Len(users) : users[i].email = email
           THEN http' = Answer("register", 400) /\ UNCHANGED usersData
           ELSE IF bcryptRejects(password)
           THEN http' = Escaped("register", "bcrypt.hash") /\ UNCHANGED usersData
           ELSE /\ Len(users) < MaxUsers
                /\ IF ok
                   THEN http' = Answer("register", 200) /\ usersData' = Append(users, newUser)
                   ELSE http' = Escaped("register", "saveUsers") /\ UNCHANGED usersData
        /\ UNCHANGED <<focusGroupVars, report, individualData>>

\* POST /api/auth/login
Login(usernameOrEmail, password) ==
    LET users == loadUsers(usersData)
        ui == FindIndex({i \in 1..Len(users) :
                            users[i].email = usernameOrEmail
                            \/ users[i].username = usernameOrEmail})
    IN  /\ IF usernameOrEmail = "" \/ password = ""
           THEN http' = Answer("login", 400)
           ELSE IF ui = 0
           THEN http' = Answer("login", 401)
           ELSE IF bcryptRejects(password)
           THEN http' = Escaped("login", "bcrypt.compare")
           ELSE IF ~bcryptCompare(password, users[ui].passwordHash)
           THEN http' = Answer("login", 401)
           ELSE http' = Answer("login", 200)
        /\ UNCHANGED <<focusGroupVars, usersData, report, individualData>>

\* POST /api/auth/update-profile
UpdateProfile(email, username, school, ok) ==
    LET users == loadUsers(usersData)
        userIndex == FindIndex({i \in 1..Len(users) : users[i].email = email})
        updatedUser == spread(users[userIndex],
                              [username |-> orElse(username, users[userIndex].username),
                               school |-> orElse(school, "null"),
                               country |-> "null", city |-> "null",
                               avatar |-> "default",
                               updatedAt |-> toISOString(clock)])
    IN  /\ IF email = ""
           THEN http' = Answer("update-profile", 400) /\ UNCHANGED usersData
           ELSE IF userIndex = 0
           THEN http' = Answer("update-profile", 404) /\ UNCHANGED usersData
           ELSE IF ok
           THEN /\ http' = Answer("update-profile", 200)
                /\ usersData' = replaceAt(users, userIndex, updatedUser)
           ELSE http' = Caught("update-profile", "saveUsers") /\ UNCHANGED usersData
        /\ UNCHANGED <<focusGroupVars, report, individualData>>

\* GET /api/auth/profile/:email
GetProfile(email) ==
    LET users == loadUsers(usersData)
    IN  /\ email # ""
        /\ IF \E i \in 1..Len(users) : users[i].email = email
           THEN http' = Answer("profile", 200)
           ELSE http' = Answer("profile", 404)
        /\ UNCHANGED <<focusGroupVars, usersData, report, individualData>>

NextAuth ==
    \/ \E username \in Usernames, email \in Emails, password \in Passwords, ok \in BOOLEAN :
            Register(username, email, password, ok)
    \/ \E usernameOrEmail \in Usernames \cup Emails, password \in Passwords :
            Login(usernameOrEmail, password)
    \/ \E email \in Emails, username \in Usernames, school \in {"", "MIT"}, ok \in BOOLEAN :
            UpdateProfile(email, username, school, ok)
    \/ \E email \in Emails : GetProfile(email)

SpecAuth == Init /\ [][NextAuth]_vars

(***************************************************************************)
(* GET /api/group-submissions.  submissionGroups is a plain object used as *)
(* a map: its own properties in the order they were made.  The name        *)
(* "__proto__" is not a property one can make by assignment: reading it    *)
(* gives the object's prototype, assigning an object to it sets the        *)
(* prototype.                                                              *)
(***************************************************************************)
\* submissionGroups[key], as a condition
objectHas(props, key) ==
    \/ \E i \in 1..Len(props) : props[i].key = key
    \/ key = "__proto__"

\* submissionGroups[key] = s
objectSet(props, key, s) ==
    IF key = "__proto__" THEN props
    ELSE IF \E i \in 1..Len(props) : props[i].key = key
    THEN [i \in 1..Len(props) |->
            IF props[i].key = key THEN [key |-> key, value |-> s] ELSE props[i]]
    ELSE Append(props, [key |-> key, value |-> s])

\* s.cases && s.cases.length, then s.cases.some(c => c.group === group)
hasGroupCases(s, group) ==
    /\ "cases" \in DOMAIN s
    /\ Len(s.cases) > 0
    /\ \E i \in 1..Len(s.cases) : s.cases[i].group = group

\* s.isEditedVersion && s.originalSubmissionId ? s.originalSubmissionId : own key
groupKey(s) ==
    IF isEditedVersion(s) /\ "originalSubmissionId" \in DOMAIN s /\ s.originalSubmissionId # ""
    THEN s.originalSubmissionId
    ELSE identityKey(s)

\* the body of submissions.forEach
groupOne(props, s, group) ==
    IF hasGroupCases(s, group) /\ (~objectHas(props, groupKey(s)) \/ isEditedVersion(s))
    THEN objectSet(props, groupKey(s), s)
    ELSE props

RECURSIVE groupAll(_, _, _)
groupAll(props, submissions, group) ==
    IF submissions = <<>> THEN props
    ELSE groupAll(groupOne(props, Head(submissions), group), Tail(submissions), group)

\* c.group === group
caseInGroup(c, group) == c.group = group

RECURSIVE filterCases(_, _)
filterCases(cases, group) ==
    IF cases = <<>> THEN <<>>
    ELSE IF caseInGroup(Head(cases), group)
         THEN <<Head(cases)>> \o filterCases(Tail(cases), group)
         ELSE filterCases(Tail(cases), group)

\* the object made of one kept submission; JSON leaves out what is undefined
groupEntry(s, group) ==
    spread([f \in DOMAIN s \cap {"conceptCard", "username", "email", "submittedAt"} |-> s[f]],
           [isEditedVersion |-> isEditedVersion(s),
            originalSubmissionId |-> IF "originalSubmissionId" \in DOMAIN s
                                     THEN orElse(s.originalSubmissionId, "null")
                                     ELSE "null",
            editedBy |-> IF "editedBy" \in DOMAIN s THEN orElse(s.editedBy, "null")
                         ELSE "null",
            editTimestamp |-> IF "editTimestamp" \in DOMAIN s
                              THEN orElse(s.editTimestamp, "null")
                              ELSE "null",
            cases |-> filterCases(s.cases, group)])

\* Object.values(submissionGroups).map(...)
groupSubmissions(submissions, group) ==
    LET props == groupAll(<<>>, submissions, group)
    IN  [i \in 1..Len(props) |-> groupEntry(props[i].value, group)]

\* the handler: 400 without a group, else the report
GetGroupSubmissions(group) ==
    /\ IF group = ""
       THEN report' = [status |-> 400, success |-> FALSE, group |-> group,
                       data |-> <<>>, count |-> 0]
       ELSE LET groupSubs ==
                    groupSubmissions(loadFocusGroupSubmissions(fileExists, fileData), group)
            IN  report' = [status |-> 200, success |-> TRUE, group |-> group,
                           data |-> groupSubs, count |-> Len(groupSubs)]
    /\ UNCHANGED <<focusGroupVars, usersData, http, individualData>>

\* The stores the report is computed over: submissions as posted, edited
\* versions as the server makes them, in any order, with and without cases
\* of the group asked for; and an edited version whose originalSubmissionId
\* is "__proto__".
Groups == {"", "g1", "g2"}
CasesBoth == <<[group |-> "g2"], [group |-> "g1"], [group |-> "g1"]>>
GroupRecords ==
    {Posted("2024-01-01T00:00:00Z"),
     [Posted("2024-01-02T00:00:00Z") EXCEPT !.cases = CasesBoth],
     [Posted("2024-01-02T00:00:00Z") EXCEPT !.cases = <<>>],
     createNew(Posted("2024-01-01T00:00:00Z"), [cases |-> CasesBoth], TargetId, "fac", 0, 0),
     createNew(Posted("2024-01-01T00:00:00Z"), [cases |-> CasesB], TargetId, "fac", 1, 1),
     updateExisting(Posted("2024-01-02T00:00:00Z"), OtherEdited,
                    [originalSubmissionId |-> "__proto__", cases |-> CasesA], "fac", 0)}

RECURSIVE SeqsUpTo(_, _)
SeqsUpTo(S, n) ==
    IF n = 0 THEN {<<>>}
    ELSE LET shorter == SeqsUpTo(S, n - 1)
         IN  shorter \cup {Append(q, x) : q \in shorter, x \in S}

InitGroup ==
    /\ fileData \in SeqsUpTo(GroupRecords, MaxGroupStore)
    /\ fileExists = (fileData # <<>>)
    /\ clock = 0
    /\ req = [r \in Slots |-> Idle]
    /\ OthersIdle

NextGroup == \E group \in Groups : GetGroupSubmissions(group)

SpecGroup == InitGroup /\ [][NextGroup]_vars

(***************************************************************************)
(* GET /api/user-value-history/:email and /api/user-tension-history/:email.*)
(* The handler's locals are the Set of values seen and the array of        *)
(* details; each forEach is a fold over them.                              *)
(***************************************************************************)
\* loadSubmissions: [] when the file cannot be read
loadSubmissions(data) == data

predefinedTensions ==
    {"Privacy vs. Transparency",
     "Accuracy vs. Fairness",
     "Autonomy vs. Safety",
     "Efficiency vs. Explainability",
     "Innovation vs. Regulation",
     "Individual vs. Collective Good",
     "Accessibility vs. Complexity",
     "Customization vs. Standardization"}

NoDetails == [seen |-> {}, details |-> <<>>]

\* the object pushed: definition || '', submissionDate: sub.submittedAt
detailOf(item, source, sub) ==
    spread([value |-> item.value,
            definition |-> IF "definition" \in DOMAIN item THEN item.definition ELSE "",
            source |-> source],
           IF "submittedAt" \in DOMAIN sub THEN [submissionDate |-> sub.submittedAt]
           ELSE <<>>)

\* the body of caseItem.values.forEach
valueStep_pushesAll(acc, valueItem, source, sub) ==
    IF "value" \in DOMAIN valueItem /\ valueItem.value # ""
    THEN [seen |-> acc.seen \cup {valueItem.value},
          details |-> Append(acc.details, detailOf(valueItem, source, sub))]
    ELSE acc
valueStep(acc, valueItem, source, sub) ==
    IF /\ "value" \in DOMAIN valueItem /\ valueItem.value # ""
       /\ valueItem.value \notin acc.seen
    THEN [seen |-> acc.seen \cup {valueItem.value},
          details |-> Append(acc.details, detailOf(valueItem, source, sub))]
    ELSE acc

\* the body of caseItem.tensions.forEach
tensionStep_keepsPredefined(acc, tensionItem, source, sub) ==
    IF /\ "value" \in DOMAIN tensionItem /\ tensionItem.value # ""
       /\ tensionItem.value \notin acc.seen
    THEN [seen |-> acc.seen \cup {tensionItem.value},
          details |-> Append(acc.details, detailOf(tensionItem, source, sub))]
    ELSE acc
tensionStep(acc, tensionItem, source, sub) ==
    IF /\ "value" \in DOMAIN tensionItem /\ tensionItem.value # ""
       /\ tensionItem.value \notin acc.seen
       /\ tensionItem.value \notin predefinedTensions
    THEN [seen |-> acc.seen \cup {tensionItem.value},
          details |-> Append(acc.details, detailOf(tensionItem, source, sub))]
    ELSE acc

itemStep(kind, acc, item, source, sub) ==
    IF kind = "values" THEN valueStep(acc, item, source, sub)
    ELSE tensionStep(acc, item, source, sub)

RECURSIVE scanItems(_, _, _, _, _)
scanItems(kind, acc, items, source, sub) ==
    IF items = <<>> THEN acc
    ELSE scanItems(kind, itemStep(kind, acc, Head(items), source, sub),
                   Tail(items), source, sub)

\* sub.cases.forEach: a case without the array is passed over
RECURSIVE scanCases(_, _, _, _, _)
scanCases(kind, acc, cases, source, sub) ==
    IF cases = <<>> THEN acc
    ELSE scanCases(kind,
                   IF kind \in DOMAIN Head(cases)
                   THEN scanItems(kind, acc, Head(cases)[kind], source, sub)
                   ELSE acc,
                   Tail(cases), source, sub)

\* the forEach over the user's submissions: one without cases is passed over
RECURSIVE scanSubmissions(_, _, _, _)
scanSubmissions(kind, acc, subs, source) ==
    IF subs = <<>> THEN acc
    ELSE scanSubmissions(kind,
                         IF "cases" \in DOMAIN Head(subs)
                         THEN scanCases(kind, acc, Head(subs).cases, source, Head(subs))
                         ELSE acc,
                         Tail(subs), source)

\* sub.email === email
isUserFocusGroup(sub, email) == "email" \in DOMAIN sub /\ sub.email = email

\* sub.author === email || sub.email === email
isUserIndividual(sub, email) ==
    \/ "author" \in DOMAIN sub /\ sub.author = email
    \/ "email" \in DOMAIN sub /\ sub.email = email

RECURSIVE userFocusGroupSubmissions(_, _)
userFocusGroupSubmissions(data, email) ==
    IF data = <<>> THEN <<>>
    ELSE (IF isUserFocusGroup(Head(data), email) THEN <<Head(data)>> ELSE <<>>)
         \o userFocusGroupSubmissions(Tail(data), email)

RECURSIVE userIndividualSubmissions(_, _)
userIndividualSubmissions(data, email) ==
    IF data = <<>> THEN <<>>
    ELSE (IF isUserIndividual(Head(data), email) THEN <<Head(data)>> ELSE <<>>)
         \o userIndividualSubmissions(Tail(data), email)

\* the details array of a history handler
userHistory(kind, focusGroupData, individual, email) ==
    scanSubmissions(kind,
        scanSubmissions(kind, NoDetails,
                        userFocusGroupSubmissions(focusGroupData, email), "focus-group"),
        userIndividualSubmissions(individual, email), "individual").details

historyReport(kind, email, details) ==
    [status |-> 200, success |-> TRUE, kind |-> kind, email |-> email,
     data |-> details, count |-> Len(details), hasSubmissions |-> Len(details) > 0]

GetUserValueHistory(email) ==
    /\ report' = historyReport("values", email,
                    userHistory("values", loadFocusGroupSubmissions(fileExists, fileData),
                                loadSubmissions(individualData), email))
    /\ UNCHANGED <<focusGroupVars, usersData, http, individualData>>

GetUserTensionHistory(email) ==
    /\ report' = historyReport("tensions", email,
                    userHistory("tensions", loadFocusGroupSubmissions(fileExists, fileData),
                                loadSubmissions(individualData), email))
    /\ UNCHANGED <<focusGroupVars, usersData, http, individualData>>

\* The stores the histories are computed over: one value with two
\* definitions and without one, a predefined tension, one that differs from
\* it in case only, items without a value, cases without the arrays,
\* submissions of another user, and an individual submission that is the
\* user's by its email only.
HistoryEmails == {"a@x.com", "b@x.com"}
CaseOne ==
    [group |-> "g1",
     values |-> <<[value |-> "Fairness", definition |-> "d1"], [value |-> "Trust"]>>,
     tensions |-> <<[value |-> "Privacy vs. Transparency", definition |-> "d1"],
                    [value |-> "Speed vs. Care", definition |-> "d1"]>>]
CaseTwo ==
    [group |-> "g1",
     values |-> <<[value |-> "Fairness", definition |-> "d2"], [value |-> ""],
                  [definition |-> "d1"]>>,
     tensions |-> <<[value |-> "Speed vs. Care", definition |-> "d2"],
                    [value |-> "privacy vs. transparency"],
                    [value |-> "Privacy vs. Transparency", definition |-> "d2"]>>]
CaseThree ==
    [group |-> "g2",
     values |-> <<[value |-> "Trust", definition |-> "d2"], [value |-> "Fairness"]>>,
     tensions |-> <<[value |-> "", definition |-> "d1"],
                    [value |-> "Accuracy vs. Fairness"]>>]
CaseBare == [group |-> "g2"]
FocusGroupHistoryRecords ==
    {[username |-> "alice", email |-> "a@x.com", submittedAt |-> "2024-01-01T00:00:00Z",
      cases |-> <<CaseOne, CaseBare>>],
     [username |-> "alice", email |-> "a@x.com", submittedAt |-> "2024-01-02T00:00:00Z",
      cases |-> <<CaseTwo, CaseThree>>],
     [username |-> "alice", email |-> "a@x.com", submittedAt |-> "2024-01-03T00:00:00Z",
      cases |-> <<CaseThree, CaseOne>>],
     [username |-> "bob", email |-> "b@x.com", submittedAt |-> "2024-01-01T00:00:00Z",
      cases |-> <<CaseTwo>>],
     [username |-> "alice", email |-> "a@x.com", submittedAt |-> "2024-01-04T00:00:00Z"]}
IndividualHistoryRecords ==
    {[title |-> "t", author |-> "a@x.com", submittedAt |-> "2024-02-01T00:00:00Z",
      cases |-> <<CaseTwo>>],
     [title |-> "t", author |-> "a@x.com", submittedAt |-> "2024-02-02T00:00:00Z",
      cases |-> <<CaseThree, CaseOne>>],
     [title |-> "t", author |-> "bob", email |-> "a@x.com",
      submittedAt |-> "2024-02-03T00:00:00Z", cases |-> <<CaseOne>>],
     [title |-> "t", author |-> "b@x.com", submittedAt |-> "2024-02-01T00:00:00Z",
      cases |-> <<CaseOne, CaseTwo>>]}

InitHistory ==
    /\ fileData \in SeqsUpTo(FocusGroupHistoryRecords, MaxHistoryStore)
    /\ fileExists = (fileData # <<>>)
    /\ clock = 0
    /\ req = [r \in Slots |-> Idle]
    /\ usersData = <<>>
    /\ http = NoRequest
    /\ report = NoReport
    /\ individualData \in SeqsUpTo(IndividualHistoryRecords, MaxHistoryStore)

NextHistory ==
    \/ \E email \in HistoryEmails : GetUserValueHistory(email)
    \/ \E email \in HistoryEmails : GetUserTensionHistory(email)

SpecHistory == InitHistory /\ [][NextHistory]_vars

(***************************************************************************)
(* Properties.  A slot with pc = "done" shows a request just answered:     *)
(* focusGroupData is the array it loaded, replaced is what the file held   *)
(* just before its write, fileData is what the file holds now.             *)
(***************************************************************************)
Answered(r) == req[r].pc = "done"
EditAnswered(r) == Answered(r) /\ req[r].kind = "edit"
\* the write did not fail and no later write has reached the file
Saved(r) == req[r].status # 500 /\ (req[r].status = 200 => req[r].last)

Indexes(arr) == 1..Len(arr)
HasKey(arr, id) == \E i \in Indexes(arr) : identityKey(arr[i]) = id
EditedVersionsOf(arr, id) ==
    {i \in Indexes(arr) :
        /\ "isEditedVersion" \in DOMAIN arr[i] /\ arr[i].isEditedVersion = TRUE
        /\ "originalSubmissionId" \in DOMAIN arr[i] /\ arr[i].originalSubmissionId = id}
First(S) == CHOOSE i \in S : \A j \in S : i <= j

\* C1: starting from a store with a record of key TargetId and no edited
\* version of it, after any edits with that id made one after the other,
\* whatever they carry, the store holds at most one edited version of it.
C1_AtMostOneEditedVersion ==
    Cardinality(EditedVersionsOf(fileData, TargetId)) <= 1

\* a repeated edit has been answered: the version it found is the one there is
C1_Witness ==
    /\ EditAnswered(1)
    /\ req[1].status = 200
    /\ EditedVersionsOf(req[1].focusGroupData, TargetId) # {}
    /\ Cardinality(EditedVersionsOf(fileData, TargetId)) = 1
    /\ Len(fileData) = Len(req[1].focusGroupData)

\* C2: in every reachable state, for every identity key there is at most
\* one edited version.
C2_AtMostOneEditedVersionPerKey ==
    \A id \in EditIds : Cardinality(EditedVersionsOf(fileData, id)) <= 1

\* C3: an edit of a stored submission that has no edited version and is not
\* one itself answers isNewVersion = true and appends exactly one record,
\* leaving every record already stored as it was at its index; the new
\* record is an edited version of the id given, submitted at the tick of
\* the request, whatever editedData says of these three fields.
C3_Case(r) ==
    LET d == req[r].focusGroupData
        id == req[r].id
    IN  /\ EditAnswered(r)
        /\ Saved(r)
        /\ HasKey(d, id)
        /\ EditedVersionsOf(d, id) = {}
        /\ \A i \in Indexes(d) : identityKey(d[i]) = id => ~isEditedVersion(d[i])

C3_NewVersionAppended ==
    \A r \in Slots :
        C3_Case(r) =>
            /\ req[r].status = 200
            /\ req[r].success
            /\ req[r].isNewVersion
            /\ Len(fileData) = Len(req[r].replaced) + 1
            /\ \A j \in Indexes(req[r].replaced) : fileData[j] = req[r].replaced[j]
            /\ LET n == fileData[Len(fileData)]
               IN  /\ n.isEditedVersion = TRUE
                   /\ n.originalSubmissionId = req[r].id
                   /\ n.submittedAt = toISOString(req[r].at)

\* C3's case with editedData that carries the three fields itself
C3_Witness ==
    \E r \in Slots :
        /\ C3_Case(r)
        /\ req[r].status = 200
        /\ {"isEditedVersion", "originalSubmissionId", "submittedAt"}
                \subseteq DOMAIN req[r].editedData
        /\ req[r].editedData.originalSubmissionId # req[r].id
        /\ Len(req[r].replaced) >= 2

\* C4: when an edited version of the id exists, a further edit with that id
\* answers isNewVersion = false and replaces that record, at its index, by
\* the merge of original, existing edited version and editedData: a field
\* of editedData has the new value, any other field keeps the value of the
\* existing edited version, or else of the original; editTimestamp and
\* editedBy are those of this request; the store's size and every other
\* record stay as they were.
C4_Case(r) ==
    LET d == req[r].focusGroupData
    IN  /\ EditAnswered(r)
        /\ Saved(r)
        /\ HasKey(d, req[r].id)
        /\ EditedVersionsOf(d, req[r].id) # {}

C4_ExistingVersionMerged ==
    \A r \in Slots :
        C4_Case(r) =>
            LET d == req[r].focusGroupData
                id == req[r].id
                ed == req[r].editedData
                ei == First(EditedVersionsOf(d, id))
                original == d[First({i \in Indexes(d) : identityKey(d[i]) = id})]
                existing == d[ei]
                m == fileData[ei]
                engine == {"editTimestamp", "editedBy"}
            IN  /\ req[r].status = 200
                /\ req[r].success
                /\ ~req[r].isNewVersion
                /\ Len(fileData) = Len(req[r].replaced)
                /\ \A j \in Indexes(fileData) : j # ei => fileData[j] = req[r].replaced[j]
                /\ DOMAIN m = DOMAIN original \cup DOMAIN existing \cup DOMAIN ed \cup engine
                /\ m.editTimestamp = toISOString(req[r].at)
                /\ m.editedBy = (IF req[r].editedBy = "" THEN "unknown" ELSE req[r].editedBy)
                /\ \A f \in DOMAIN m \ engine :
                        m[f] = IF f \in DOMAIN ed THEN ed[f]
                               ELSE IF f \in DOMAIN existing THEN existing[f]
                               ELSE original[f]

\* C4's case where the existing edited version has cases that differ from
\* the original's and editedData has none: the previous edit's cases stay
C4_Witness ==
    \E r \in Slots :
        /\ C4_Case(r)
        /\ req[r].status = 200
        /\ "cases" \notin DOMAIN req[r].editedData
        /\ LET d == req[r].focusGroupData
               ei == First(EditedVersionsOf(d, req[r].id))
               oi == First({i \in Indexes(d) : identityKey(d[i]) = req[r].id})
           IN  /\ d[ei].cases # d[oi].cases
               /\ fileData[ei].cases = d[ei].cases
               /\ fileData[ei] # d[ei]

\* C5: after a successful edit with a non-blank facilitatorComment, the
\* record in the file carries facilitatorComment, facilitatorCommentBy and
\* facilitatorCommentTimestamp.
C5_CommentPersisted ==
    \A r \in Slots :
        (/\ EditAnswered(r)
         /\ req[r].status = 200
         /\ req[r].last
         /\ req[r].facilitatorComment \notin {"", "  "})
        => LET p == fileData[req[r].index]
           IN  /\ "facilitatorComment" \in DOMAIN p
               /\ p.facilitatorComment = req[r].facilitatorComment
               /\ "facilitatorCommentBy" \in DOMAIN p
               /\ "facilitatorCommentTimestamp" \in DOMAIN p

\* C6: an edit whose id is the identity key of no stored submission is
\* answered not-found (404, success = false) and the file stays as it was.
C6_UnknownIdNotFound ==
    \A r \in Slots :
        (EditAnswered(r) /\ ~HasKey(req[r].focusGroupData, req[r].id))
        => /\ req[r].status = 404
           /\ ~req[r].success
           /\ loadFocusGroupSubmissions(fileExists, fileData) = req[r].focusGroupData

\* what does hold of the code: the same, for a file that can be read
NotFoundWhenFileReadable ==
    \A r \in Slots :
        (EditAnswered(r) /\ fileExists /\ ~HasKey(req[r].focusGroupData, req[r].id))
        => /\ req[r].status = 404
           /\ ~req[r].success
           /\ fileData = req[r].focusGroupData

\* C7: with the focus-group file missing, an edit sees the empty sequence
\* and is answered not-found (404), not with a server fault.
C7_MissingFileNotFound ==
    \A r \in Slots : (EditAnswered(r) /\ ~fileExists) => req[r].status = 404

\* C8: nothing orders one handler's load and save against another's, and
\* a save overwrites the file with what its own handler loaded and changed:
\* after a successful save the file holds, at every index but the one the
\* request wrote, the records of that request's own snapshot, so what
\* another request saved in between is gone.
C8_LastSaveWins ==
    \A r \in Slots :
        (Answered(r) /\ req[r].status = 200 /\ req[r].last) =>
            LET snapshot == req[r].focusGroupData
            IN  /\ Len(fileData) \in {Len(snapshot), Len(snapshot) + 1}
                /\ req[r].index \in Indexes(fileData)
                /\ \A j \in Indexes(fileData) :
                        j # req[r].index => j <= Len(snapshot) /\ fileData[j] = snapshot[j]

\* two edits of the same submission loaded the same snapshot, both were
\* answered 200, and the record the first one saved is not in the file
C8_Witness ==
    \E a \in Slots, b \in Slots :
        /\ a # b
        /\ EditAnswered(a) /\ req[a].status = 200
        /\ EditAnswered(b) /\ req[b].status = 200
        /\ req[a].id = req[b].id
        /\ req[a].focusGroupData = req[b].focusGroupData
        /\ req[b].overtaken = 1
        /\ req[b].last /\ ~req[a].last
        /\ req[b].replaced = req[a].toWrite
        /\ \A j \in Indexes(fileData) : fileData[j] # req[a].toWrite[req[a].index]

\* the same between a focus-group POST and an edit: the posted submission
\* was saved first and is not in the file after the edit's save
LostPost ==
    \E a \in Slots, b \in Slots :
        /\ a # b
        /\ Answered(a) /\ req[a].kind = "post" /\ req[a].status = 200
        /\ EditAnswered(b) /\ req[b].status = 200
        /\ req[a].focusGroupData = req[b].focusGroupData
        /\ req[b].overtaken = 1
        /\ req[b].last /\ ~req[a].last
        /\ req[b].replaced = req[a].toWrite
        /\ Len(fileData) < Len(req[b].replaced)

\* C9: a failure raised while a request is handled is caught by the handler
\* and answered { success: false } (status 500); none leaves the handler
\* unanswered or as an unhandled rejection.
C9_FailuresAnswered ==
    /\ http.failure # "none" =>
            /\ http.answered
            /\ http.status = 500
            /\ ~http.success
            /\ ~http.unhandledRejection
    /\ \A r \in Slots : (Answered(r) /\ req[r].status = 500) => ~req[r].success

\* what does hold of the code: the handlers on the focus-group file answer
\* a failed read or write with 500 { success: false }, and a failed write
\* is not made again (the file is as it was)
FocusGroupFailuresAnswered ==
    \A r \in Slots :
        (Answered(r) /\ req[r].status \notin {200, 404}) =>
            /\ req[r].status = 500
            /\ ~req[r].success
            /\ (req[r].replaced # <<>> => fileData = req[r].replaced)

\* C10: the report for group G has exactly one entry for each key among
\* the stored submissions with a case of group G (an edited version's key
\* is its originalSubmissionId, any other record's its own identity key);
\* where an original and an edited version of it both have such a case the
\* entry is the edited version, whatever their order; an entry's cases are
\* those of group G of the record it was made of; count is the number of
\* entries.
ClaimKey(s) ==
    IF "isEditedVersion" \in DOMAIN s /\ s.isEditedVersion = TRUE
    THEN s.originalSubmissionId
    ELSE identityKey(s)
Qualifying(G) ==
    {i \in Indexes(fileData) :
        "cases" \in DOMAIN fileData[i]
        /\ \E c \in Indexes(fileData[i].cases) : fileData[i].cases[c].group = G}
EntryKey(e) ==
    IF e.isEditedVersion THEN e.originalSubmissionId
    ELSE e.username \o "|" \o e.email \o "|" \o e.submittedAt
GroupReportRight(G) ==
    LET keys == {ClaimKey(fileData[i]) : i \in Qualifying(G)}
        data == report.data
    IN  /\ report.count = Len(data)
        /\ Len(data) = Cardinality(keys)
        /\ \A k \in keys : Cardinality({n \in Indexes(data) : EntryKey(data[n]) = k}) = 1
        /\ \A n \in Indexes(data) :
            /\ \A c \in Indexes(data[n].cases) : data[n].cases[c].group = G
            /\ \E i \in Qualifying(G) :
                /\ ClaimKey(fileData[i]) = EntryKey(data[n])
                /\ data[n].submittedAt = fileData[i].submittedAt
                /\ Len(data[n].cases) =
                        Cardinality({c \in Indexes(fileData[i].cases) :
                                        fileData[i].cases[c].group = G})
            /\ (\E i \in Qualifying(G) :
                    /\ isEditedVersion(fileData[i])
                    /\ EntryKey(data[n]) = fileData[i].originalSubmissionId)
               => data[n].isEditedVersion

C10_OneEntryPerKey ==
    (report.status = 200) => GroupReportRight(report.group)

\* what does hold of the code: the same, for stores where no submission
\* with a case of the group is an edited version of "__proto__"
OneEntryPerKeyButProto ==
    (/\ report.status = 200
     /\ \A i \in Qualifying(report.group) : ClaimKey(fileData[i]) # "__proto__")
    => GroupReportRight(report.group)

\* an original and its edited version both have a case of the group, the
\* edited version comes first in the store, and the one entry is the edited one
EditedVersionFirstKept ==
    /\ report.status = 200
    /\ \E i \in Qualifying(report.group), j \in Qualifying(report.group) :
        /\ i < j
        /\ isEditedVersion(fileData[i])
        /\ fileData[i].originalSubmissionId = identityKey(fileData[j])
        /\ "isEditedVersion" \notin DOMAIN fileData[j]
    /\ Len(report.data) = 1
    /\ report.data[1].isEditedVersion

\* The occurrences of value or tension items in the two collections, by
\* place: <<collection, submission, case, item>>, collection 1 the
\* focus-group store and 2 the individual one.  Scan order is the order of
\* the places, left to right.
Collection(c) == IF c = 1 THEN fileData ELSE individualData
UserIndexes(c, email) ==
    {i \in Indexes(Collection(c)) :
        LET sub == Collection(c)[i]
        IN  \/ "email" \in DOMAIN sub /\ sub.email = email
            \/ c = 2 /\ "author" \in DOMAIN sub /\ sub.author = email}
CasesAt(c, i) ==
    IF "cases" \in DOMAIN Collection(c)[i] THEN Collection(c)[i].cases ELSE <<>>
ItemsAt(field, c, i, j) ==
    IF field \in DOMAIN CasesAt(c, i)[j] THEN CasesAt(c, i)[j][field] ELSE <<>>
ItemAt(field, p) == ItemsAt(field, p[1], p[2], p[3])[p[4]]
Occurrences(field, email) ==
    UNION {UNION {UNION {{<<c, i, j, k>> :
                            k \in {n \in Indexes(ItemsAt(field, c, i, j)) :
                                    /\ "value" \in DOMAIN ItemsAt(field, c, i, j)[n]
                                    /\ ItemsAt(field, c, i, j)[n].value # ""}} :
                         j \in Indexes(CasesAt(c, i))} :
                  i \in UserIndexes(c, email)} :
           c \in 1..2}
Before(p, q) ==
    \/ p[1] < q[1]
    \/ p[1] = q[1] /\ p[2] < q[2]
    \/ p[1] = q[1] /\ p[2] = q[2] /\ p[3] < q[3]
    \/ p[1] = q[1] /\ p[2] = q[2] /\ p[3] = q[3] /\ p[4] < q[4]
FirstOccurrence(field, email, v) ==
    CHOOSE p \in Occurrences(field, email) :
        /\ ItemAt(field, p).value = v
        /\ \A q \in Occurrences(field, email) :
                ItemAt(field, q).value = v => (q = p \/ Before(p, q))
DefinitionAt(field, p) ==
    IF "definition" \in DOMAIN ItemAt(field, p) THEN ItemAt(field, p).definition ELSE ""

\* C11: the value history of a user has at most one entry for a value, and
\* the entry has the definition (empty when the item has none), the source
\* and the submission date of the value's first occurrence in scan order:
\* the user's focus-group submissions in store order, then the individual
\* ones.
C11_FirstOccurrenceKept ==
    (report.status = 200 /\ report.kind = "values") =>
        LET data == report.data
            occ == Occurrences("values", report.email)
        IN  /\ \A m \in Indexes(data), n \in Indexes(data) :
                    data[m].value = data[n].value => m = n
            /\ \A n \in Indexes(data) :
                /\ \E p \in occ : ItemAt("values", p).value = data[n].value
                /\ LET p == FirstOccurrence("values", report.email, data[n].value)
                   IN  /\ data[n].definition = DefinitionAt("values", p)
                       /\ data[n].source = (IF p[1] = 1 THEN "focus-group" ELSE "individual")
                       /\ data[n].submissionDate = Collection(p[1])[p[2]].submittedAt

\* a value occurs in a focus-group submission and later, with another
\* definition, in an individual one; the report has it once, as first seen
C11_Witness ==
    /\ report.status = 200 /\ report.kind = "values"
    /\ \E p \in Occurrences("values", report.email), q \in Occurrences("values", report.email) :
        /\ p[1] = 1 /\ q[1] = 2
        /\ ItemAt("values", p).value = ItemAt("values", q).value
        /\ p = FirstOccurrence("values", report.email, ItemAt("values", p).value)
        /\ DefinitionAt("values", p) # DefinitionAt("values", q)
        /\ \E n \in Indexes(report.data) :
            /\ report.data[n].value = ItemAt("values", p).value
            /\ report.data[n].definition = DefinitionAt("values", p)
            /\ report.data[n].source = "focus-group"

\* C12: no entry of the tension history has one of the eight predefined
\* labels as its value, and every other non-empty tension value of the
\* user's submissions has exactly one entry.
C12_PredefinedTensionsExcluded ==
    (report.status = 200 /\ report.kind = "tensions") =>
        LET data == report.data
            occ == Occurrences("tensions", report.email)
        IN  /\ Cardinality(predefinedTensions) = 8
            /\ "Privacy vs. Transparency" \in predefinedTensions
            /\ \A n \in Indexes(data) : data[n].value \notin predefinedTensions
            /\ \A p \in occ :
                ItemAt("tensions", p).value \notin predefinedTensions =>
                    Cardinality({n \in Indexes(data) :
                                    data[n].value = ItemAt("tensions", p).value}) = 1

\* a predefined label occurs in both collections and a tension of the
\* user's own occurs twice; the report has the latter, and the label
\* written in lower case, once each
C12_Witness ==
    /\ report.status = 200 /\ report.kind = "tensions"
    /\ \E p \in Occurrences("tensions", report.email), q \in Occurrences("tensions", report.email) :
        /\ p[1] = 1 /\ q[1] = 2
        /\ ItemAt("tensions", p).value = "Privacy vs. Transparency"
        /\ ItemAt("tensions", q).value = "Privacy vs. Transparency"
    /\ \E p \in Occurrences("tensions", report.email), q \in Occurrences("tensions", report.email) :
        /\ p # q
        /\ ItemAt("tensions", p).value = "Speed vs. Care"
        /\ ItemAt("tensions", q).value = "Speed vs. Care"
    /\ Cardinality({n \in Indexes(report.data) : report.data[n].value = "Speed vs. Care"}) = 1
    /\ Cardinality({n \in Indexes(report.data) :
                        report.data[n].value = "privacy vs. transparency"}) = 1

\* the edited versions of a store whose own identity key is the id
EditedVersionsAt(arr, id) ==
    {i \in Indexes(arr) : isEditedVersion(arr[i]) /\ identityKey(arr[i]) = id}
NamedAsOriginal(arr, id) ==
    \E i \in Indexes(arr) :
        "originalSubmissionId" \in DOMAIN arr[i] /\ arr[i].originalSubmissionId = id
\* an answered edit whose write did not fail, of the id that is the own key
\* of an edited version, no record having that id as originalSubmissionId
C13_Case(r) ==
    /\ EditAnswered(r)
    /\ Saved(r)
    /\ EditedVersionsAt(req[r].focusGroupData, req[r].id) # {}
    /\ ~NamedAsOriginal(req[r].focusGroupData, req[r].id)
\* the record at index e is replaced by the merge of itself and editedData
\* with the request's editTimestamp and editedBy, nothing else changes
UpdatedInPlaceAt(r, e) ==
    LET d == req[r].focusGroupData
        ed == req[r].editedData
        m == fileData[e]
        engine == {"editTimestamp", "editedBy"}
    IN  /\ req[r].status = 200
        /\ req[r].success
        /\ ~req[r].isNewVersion
        /\ Len(fileData) = Len(d)
        /\ Len(fileData) = Len(req[r].replaced)
        /\ \A j \in Indexes(fileData) :
                j # e => fileData[j] = req[r].replaced[j] /\ fileData[j] = d[j]
        /\ DOMAIN m = DOMAIN d[e] \cup DOMAIN ed \cup engine
        /\ m.editTimestamp = toISOString(req[r].at)
        /\ m.editedBy = (IF req[r].editedBy = "" THEN "unknown" ELSE req[r].editedBy)
        /\ \A f \in DOMAIN m \ engine :
                m[f] = IF f \in DOMAIN ed THEN ed[f] ELSE d[e][f]
        /\ "originalSubmissionId" \notin DOMAIN ed
                => m.originalSubmissionId = d[e].originalSubmissionId
        /\ "isEditedVersion" \notin DOMAIN ed => m.isEditedVersion = TRUE

\* C13: an edit whose id is the own identity key of an edited version E,
\* no record having that id as its originalSubmissionId, answers
\* isNewVersion = false and replaces E at its index by the merge of E and
\* editedData with this request's editTimestamp and editedBy; the store's
\* size and every other record stay as they were, and the record keeps E's
\* originalSubmissionId and isEditedVersion unless editedData has them.
C13_EditedVersionUpdatedInPlace ==
    \A r \in Slots :
        C13_Case(r) =>
            \A e \in EditedVersionsAt(req[r].focusGroupData, req[r].id) :
                UpdatedInPlaceAt(r, e)

\* the same, E being the first edited version of the store with that key
C13_FirstEditedVersionUpdatedInPlace ==
    \A r \in Slots :
        C13_Case(r) =>
            UpdatedInPlaceAt(r, First(EditedVersionsAt(req[r].focusGroupData, req[r].id)))

\* C13's case with the original E was made of in the store before E, and
\* editedData without the two fields: both records are there, E changed
C13_Witness ==
    \E r \in Slots :
        /\ C13_Case(r)
        /\ req[r].status = 200
        /\ "originalSubmissionId" \notin DOMAIN req[r].editedData
        /\ LET d == req[r].focusGroupData
               e == First(EditedVersionsAt(d, req[r].id))
           IN  /\ \E o \in Indexes(d) :
                    /\ o < e
                    /\ identityKey(d[o]) = d[e].originalSubmissionId
                    /\ fileData[o] = d[o]
               /\ fileData[e] # d[e]
               /\ fileData[e].originalSubmissionId = d[e].originalSubmissionId
               /\ fileData[e].cases = req[r].editedData.cases

====
